---- MODULE Spec2Model ----
(***************************************************************************)
(* Model of Solution.py, the worked solution of the SingleFieldInstanton   *)
(* tutorial (Exercise.py is the same script with the bodies left blank).   *)
(*                                                                         *)
(* The script is straight-line code over module-level variables, so the    *)
(* state is those variables plus the position pc of the script.  The       *)
(* potential parameters are the script's inputs: Part 1 draws them from a  *)
(* bounded set of twentieths that contains the values the script ships     *)
(* with (0.25, 0.45, 0.15).  The external solver is opaque: its calls back *)
(* into V_higgs, dV_higgs and d2V_higgs are modelled as evaluations at a   *)
(* field value drawn from a bounded grid, and the profile it returns as a  *)
(* choice among bounded arrays.                                            *)
(*                                                                         *)
(* Numbers.  The script computes in binary64.  Here a number is an exact   *)
(* element (a + b*sqrt(k)) / d of a real quadratic field, or NaN: the one  *)
(* irrational operation of the script is np.sqrt(discriminant), and every  *)
(* other operation is +, -, *, / and ** by a small integer.  Rounding is   *)
(* not modelled; NaN (np.sqrt of a negative number) and its propagation    *)
(* through arithmetic and comparisons are.                                 *)
(***************************************************************************)
EXTENDS Integers, Sequences, FiniteSets, TLC

(***************************************************************************)
(* Exact arithmetic standing for Python/numpy float arithmetic.            *)
(***************************************************************************)
Abs(n) == IF n < 0 THEN -n ELSE n

RECURSIVE Gcd(_, _)
Gcd(m, n) == IF n = 0 THEN Abs(m) ELSE Gcd(n, m % Abs(n))

\* float('nan'): denominator 0.
NaN == [a |-> 0, b |-> 0, k |-> 1, d |-> 0]

IsNaN(x) == x.d = 0

\* The canonical form of (a + b*sqrt(k)) / d, d # 0, k square-free: sqrt(1)
\* is folded into the rational part, so equal numbers are equal records.
Norm(a, b, k, d) ==
    LET a1 == IF k = 1 THEN a + b ELSE a
        b1 == IF k = 1 THEN 0 ELSE b
        g  == Gcd(Gcd(a1, b1), d)
        s  == IF d < 0 THEN -1 ELSE 1
    IN  [a |-> s * (a1 \div g), b |-> s * (b1 \div g),
         k |-> IF b1 = 0 THEN 1 ELSE k, d |-> s * (d \div g)]

\* The float literal n/d.
Rat(n, d) == Norm(n, 0, 1, d)

\* The radicand two operands share (at most one of them is irrational, or
\* both come from the same np.sqrt call).
Radicand(x, y) == IF x.b # 0 THEN x.k ELSE y.k

Add(x, y) ==
    IF IsNaN(x) \/ IsNaN(y) THEN NaN
    ELSE LET g == Gcd(x.d, y.d)
             p == y.d \div g
             q == x.d \div g
         IN  Norm(x.a * p + y.a * q, x.b * p + y.b * q, Radicand(x, y), x.d * p)

Neg(x) == IF IsNaN(x) THEN NaN ELSE [x EXCEPT !.a = -x.a, !.b = -x.b]

Sub(x, y) == Add(x, Neg(y))

Mul(x, y) ==
    IF IsNaN(x) \/ IsNaN(y) THEN NaN
    ELSE LET k  == Radicand(x, y)
             g1 == Gcd(Gcd(x.a, x.b), y.d)
             g2 == Gcd(Gcd(y.a, y.b), x.d)
             xa == x.a \div g1
             xb == x.b \div g1
             ya == y.a \div g2
             yb == y.b \div g2
         IN  Norm(xa * ya + xb * yb * k, xa * yb + xb * ya, k,
                  (x.d \div g2) * (y.d \div g1))

\* x / y for a nonzero y: x * conj(y) / (y * conj(y)).
Div(x, y) ==
    IF IsNaN(x) \/ IsNaN(y) THEN NaN
    ELSE LET conj == [a |-> y.a * y.d, b |-> -(y.b * y.d), k |-> y.k, d |-> 1]
             den  == y.a * y.a - y.b * y.b * y.k
         IN  Mul(x, Norm(conj.a, conj.b, conj.k, den))

\* x ** n for a literal exponent n >= 1.
RECURSIVE Pow(_, _)
Pow(x, n) == IF n = 1 THEN x ELSE Mul(Pow(x, n - 1), x)

\* The largest s >= 1 whose square divides n (n >= 1), searched from t up.
RECURSIVE SquarePart(_, _, _)
SquarePart(n, t, best) ==
    IF t * t > n THEN best
    ELSE SquarePart(n, t + 1, IF n % (t * t) = 0 THEN t ELSE best)

\* np.sqrt of a rational: nan below zero; sqrt(a/d) = sa*sqrt(ka*kd) / (sd*kd)
\* where a = sa^2 * ka and d = sd^2 * kd.
Sqrt(x) ==
    IF IsNaN(x) \/ x.a < 0 THEN NaN
    ELSE IF x.a = 0 THEN Rat(0, 1)
    ELSE LET sa == SquarePart(x.a, 1, 1)
             sd == SquarePart(x.d, 1, 1)
             ka == x.a \div (sa * sa)
             kd == x.d \div (sd * sd)
         IN  Norm(0, sa, ka * kd, sd * kd)

\* -1, 0 or 1: the sign of a number that is not NaN.
Sign(x) ==
    LET a == x.a
        b == x.b
        r == a * a - b * b * x.k
    IN  IF b = 0 THEN (IF a > 0 THEN 1 ELSE IF a < 0 THEN -1 ELSE 0)
        ELSE IF a >= 0 /\ b > 0 THEN 1
        ELSE IF a <= 0 /\ b < 0 THEN -1
        ELSE IF a > 0 THEN (IF r > 0 THEN 1 ELSE -1)
        ELSE (IF r < 0 THEN 1 ELSE -1)

\* Python's x > y on floats: False as soon as an operand is nan.
Gt(x, y) == ~IsNaN(x) /\ ~IsNaN(y) /\ Sign(Sub(x, y)) = 1

Zero == Rat(0, 1)

Int2Num(n) == Rat(n, 1)

\* A module-level name that has not been assigned yet.
None == [a |-> 0, b |-> 0, k |-> 0, d |-> 0]

IsSet(x) == x # None

(***************************************************************************)
(* Bounds of the model.                                                    *)
(***************************************************************************)
\* Parameters are drawn in twentieths: lambda_coeff in 4/20 .. MaxLambda/20,
\* c3 in 8/20 .. MaxC3/20, c2 in 2/20 .. MaxC2/20.
MaxLambda == 6
MaxC3 == 10
MaxC2 == 5
\* The solver evaluates the potential at the tenths -MaxPhi/10 .. MaxPhi/10.
MaxPhi == 13
\* phi_range has NumPoints points (1000 in the script).
NumPoints == 5
\* A returned profile has 2 .. MaxProfileLen points at radii 0 .. MaxProfileLen.
MaxProfileLen == 3

(***************************************************************************)
(* Part 1: the potential and its derivatives.                              *)
(***************************************************************************)
VARIABLES
    pc,                \* the position of the script
    lambda_coeff,      \* quartic coupling
    c3,                \* cubic coefficient
    c2,                \* quadratic coefficient
    V_values,          \* Part 2: V_higgs(phi_range)
    plotted,           \* the arrays handed to plt.plot, one pair per figure
    discriminant,
    phi_min1, phi_min2, phi_min3,
    V_min1, V_min2, V_min3,
    phi_stable, phi_metastable,
    instanton_higgs,   \* the SingleFieldInstanton object
    findProfile_calls, \* how many times instanton_higgs.findProfile was called
    cb,                \* the evaluation the library is making of V, dV or d2V
    profile_higgs,     \* the profile findProfile returned
    summary,           \* what Part 5 prints of the profile
    dphi_dr,           \* np.gradient(profile_higgs.Phi, profile_higgs.R)
    wall_index, wall_radius

vars == <<pc, lambda_coeff, c3, c2, V_values, plotted, discriminant,
          phi_min1, phi_min2, phi_min3, V_min1, V_min2, V_min3,
          phi_stable, phi_metastable, instanton_higgs, findProfile_calls,
          cb, profile_higgs, summary, dphi_dr, wall_index, wall_radius>>

\* The values Solution.py ships with.
ScriptLambda == Rat(25, 100)
ScriptC3 == Rat(45, 100)
ScriptC2 == Rat(15, 100)

LambdaValues == {Rat(n, 20) : n \in 4..MaxLambda}
C3Values == {Rat(n, 20) : n \in 8..MaxC3}
C2Values == {Rat(n, 20) : n \in 2..MaxC2}

\* lambda_coeff * phi**4 - c3 * phi**3 + c2 * phi**2
V_higgs(phi) ==
    Add(Sub(Mul(lambda_coeff, Pow(phi, 4)), Mul(c3, Pow(phi, 3))),
        Mul(c2, Pow(phi, 2)))

\* dV_higgs with the factor 3 of the cubic term's derivative forgotten.
dV_higgs_NoFactor(phi) ==
    Add(Sub(Mul(Mul(Int2Num(4), lambda_coeff), Pow(phi, 3)),
            Mul(c3, Pow(phi, 2))),
        Mul(Mul(Int2Num(2), c2), phi))

\* 4 * lambda_coeff * phi**3 - 3 * c3 * phi**2 + 2 * c2 * phi
dV_higgs(phi) ==
    Add(Sub(Mul(Mul(Int2Num(4), lambda_coeff), Pow(phi, 3)),
            Mul(Mul(Int2Num(3), c3), Pow(phi, 2))),
        Mul(Mul(Int2Num(2), c2), phi))

\* d2V_higgs with the cubic term differentiated once only (3 for 6).
d2V_higgs_HalfCubic(phi) ==
    Add(Sub(Mul(Mul(Int2Num(12), lambda_coeff), Pow(phi, 2)),
            Mul(Mul(Int2Num(3), c3), phi)),
        Mul(Int2Num(2), c2))

\* 12 * lambda_coeff * phi**2 - 6 * c3 * phi + 2 * c2
d2V_higgs(phi) ==
    Add(Sub(Mul(Mul(Int2Num(12), lambda_coeff), Pow(phi, 2)),
            Mul(Mul(Int2Num(6), c3), phi)),
        Mul(Int2Num(2), c2))

NoCall == [f |-> "none", phi |-> None, val |-> None]

NoInstanton == [made |-> FALSE, phi_absMin |-> None, phi_metaMin |-> None]

NoProfile == [R |-> <<>>, Phi |-> <<>>]

NoSummary == [n |-> 0, Rmax |-> None, Phi0 |-> None, PhiEdge |-> None]

Init ==
    /\ pc = "part1"
    /\ lambda_coeff = None /\ c3 = None /\ c2 = None
    /\ V_values = <<>>
    /\ plotted = <<>>
    /\ discriminant = None
    /\ phi_min1 = None /\ phi_min2 = None /\ phi_min3 = None
    /\ V_min1 = None /\ V_min2 = None /\ V_min3 = None
    /\ phi_stable = None /\ phi_metastable = None
    /\ instanton_higgs = NoInstanton
    /\ findProfile_calls = 0
    /\ cb = NoCall
    /\ profile_higgs = NoProfile
    /\ summary = NoSummary
    /\ dphi_dr = <<>>
    /\ wall_index = -1
    /\ wall_radius = None

\* Part 1 assigns the three parameters (and defines the three functions).
Part1 ==
    /\ pc = "part1"
    /\ \E l \in LambdaValues, k3 \in C3Values, k2 \in C2Values :
          /\ lambda_coeff' = l
          /\ c3' = k3
          /\ c2' = k2
    /\ pc' = "part2"
    /\ UNCHANGED <<V_values, plotted, discriminant, phi_min1, phi_min2,
                   phi_min3, V_min1, V_min2, V_min3, phi_stable,
                   phi_metastable, instanton_higgs, findProfile_calls, cb,
                   profile_higgs, summary, dphi_dr, wall_index, wall_radius>>

(***************************************************************************)
(* Part 2: the potential over phi_range.                                   *)
(***************************************************************************)
\* np.linspace(start, stop, n)[i - 1]
Linspace(start, stop, n, i) ==
    Add(start, Mul(Int2Num(i - 1), Div(Sub(stop, start), Int2Num(n - 1))))

phi_range == [i \in 1..NumPoints |->
                 Linspace(Rat(-3, 10), Rat(13, 10), NumPoints, i)]

Part2 ==
    /\ pc = "part2"
    /\ V_values' = [i \in 1..NumPoints |-> V_higgs(phi_range[i])]
    /\ plotted' = Append(plotted, [x |-> phi_range, y |-> V_values'])
    /\ pc' = "part3"
    /\ UNCHANGED <<lambda_coeff, c3, c2, discriminant, phi_min1, phi_min2,
                   phi_min3, V_min1, V_min2, V_min3, phi_stable,
                   phi_metastable, instanton_higgs, findProfile_calls, cb,
                   profile_higgs, summary, dphi_dr, wall_index, wall_radius>>

(***************************************************************************)
(* Part 3: the critical points and their identification.                   *)
(***************************************************************************)
\* 9 * c3**2 - 32 * lambda_coeff * c2
Discriminant ==
    Sub(Mul(Int2Num(9), Pow(c3, 2)), Mul(Mul(Int2Num(32), lambda_coeff), c2))

\* (3 * c3 - np.sqrt(discriminant)) / (8 * lambda_coeff)
QuadRootMinus(disc) ==
    Div(Sub(Mul(Int2Num(3), c3), Sqrt(disc)), Mul(Int2Num(8), lambda_coeff))

\* The larger root with the quadratic formula's 2a taken as 2 * (2 * lambda).
QuadRootPlus_HalfDenominator(disc) ==
    Div(Add(Mul(Int2Num(3), c3), Sqrt(disc)), Mul(Int2Num(4), lambda_coeff))

\* (3 * c3 + np.sqrt(discriminant)) / (8 * lambda_coeff)
QuadRootPlus(disc) ==
    Div(Add(Mul(Int2Num(3), c3), Sqrt(disc)), Mul(Int2Num(8), lambda_coeff))

Part3_CriticalPoints ==
    /\ pc = "part3"
    /\ phi_min1' = Zero
    /\ V_min1' = V_higgs(phi_min1')
    /\ discriminant' = Discriminant
    /\ phi_min2' = QuadRootMinus(discriminant')
    /\ phi_min3' = QuadRootPlus(discriminant')
    /\ V_min2' = V_higgs(phi_min2')
    /\ V_min3' = V_higgs(phi_min3')
    /\ pc' = "identify"
    /\ UNCHANGED <<lambda_coeff, c3, c2, V_values, plotted, phi_stable,
                   phi_metastable, instanton_higgs, findProfile_calls, cb,
                   profile_higgs, summary, dphi_dr, wall_index, wall_radius>>

\* The identification with the comparison turned round.
Identify_Reversed ==
    IF Gt(V_min3, V_min1)
    THEN [stable |-> phi_min3, metastable |-> phi_min1]
    ELSE [stable |-> phi_min1, metastable |-> phi_min3]

\* if V_min1 > V_min3: ... else: ...
Identify ==
    IF Gt(V_min1, V_min3)
    THEN [stable |-> phi_min3, metastable |-> phi_min1]
    ELSE [stable |-> phi_min1, metastable |-> phi_min3]

Part3_Identify ==
    /\ pc = "identify"
    /\ phi_stable' = Identify.stable
    /\ phi_metastable' = Identify.metastable
    /\ pc' = "part4"
    /\ UNCHANGED <<lambda_coeff, c3, c2, V_values, plotted, discriminant,
                   phi_min1, phi_min2, phi_min3, V_min1, V_min2, V_min3,
                   instanton_higgs, findProfile_calls, cb, profile_higgs,
                   summary, dphi_dr, wall_index, wall_radius>>

(***************************************************************************)
(* Part 4: the SingleFieldInstanton object.  The constructor is library    *)
(* code; while it runs it may evaluate the functions it was handed.        *)
(***************************************************************************)
\* Part 4 left out: findProfile is called with no object constructed.
Part4_Construct_Skipped ==
    /\ pc = "part4"
    /\ findProfile_calls' = findProfile_calls + 1
    /\ pc' = "findProfile"
    /\ UNCHANGED <<lambda_coeff, c3, c2, V_values, plotted, discriminant,
                   phi_min1, phi_min2, phi_min3, V_min1, V_min2, V_min3,
                   phi_stable, phi_metastable, instanton_higgs, cb,
                   profile_higgs, summary, dphi_dr, wall_index, wall_radius>>

Part4_Construct ==
    /\ pc = "part4"
    /\ pc' = "SingleFieldInstanton"
    /\ UNCHANGED <<lambda_coeff, c3, c2, V_values, plotted, discriminant,
                   phi_min1, phi_min2, phi_min3, V_min1, V_min2, V_min3,
                   phi_stable, phi_metastable, instanton_higgs,
                   findProfile_calls, cb, profile_higgs, summary, dphi_dr,
                   wall_index, wall_radius>>

\* SingleFieldInstanton(phi_absMin=phi_stable, phi_metaMin=phi_metastable, ...)
NewInstanton ==
    [made |-> TRUE, phi_absMin |-> phi_stable, phi_metaMin |-> phi_metastable]

Part4_Return ==
    /\ pc = "SingleFieldInstanton"
    /\ cb = NoCall
    /\ instanton_higgs' = NewInstanton
    /\ pc' = "part5"
    /\ UNCHANGED <<lambda_coeff, c3, c2, V_values, plotted, discriminant,
                   phi_min1, phi_min2, phi_min3, V_min1, V_min2, V_min3,
                   phi_stable, phi_metastable, findProfile_calls, cb,
                   profile_higgs, summary, dphi_dr, wall_index, wall_radius>>

\* The field values the library evaluates the potential at.
PhiGrid == {Rat(n, 10) : n \in (-MaxPhi)..MaxPhi}

InLibrary == pc \in {"SingleFieldInstanton", "findProfile"}

\* The library calls one of the three functions: cb holds the call until the
\* function returns.
Evaluate(f, val) ==
    /\ InLibrary
    /\ cb = NoCall
    /\ cb' = [f |-> f, phi |-> val.phi, val |-> val.val]
    /\ UNCHANGED <<pc, lambda_coeff, c3, c2, V_values, plotted, discriminant,
                   phi_min1, phi_min2, phi_min3, V_min1, V_min2, V_min3,
                   phi_stable, phi_metastable, instanton_higgs,
                   findProfile_calls, profile_higgs, summary, dphi_dr,
                   wall_index, wall_radius>>

\* The called function returns its value to the library.
Call_Return ==
    /\ InLibrary
    /\ cb # NoCall
    /\ cb' = NoCall
    /\ UNCHANGED <<pc, lambda_coeff, c3, c2, V_values, plotted, discriminant,
                   phi_min1, phi_min2, phi_min3, V_min1, V_min2, V_min3,
                   phi_stable, phi_metastable, instanton_higgs,
                   findProfile_calls, profile_higgs, summary, dphi_dr,
                   wall_index, wall_radius>>

\* The library calls V=V_higgs.
Call_V ==
    \E phi \in PhiGrid : Evaluate("V", [phi |-> phi, val |-> V_higgs(phi)])

\* The library calls dV=dV_higgs.
Call_dV ==
    \E phi \in PhiGrid : Evaluate("dV", [phi |-> phi, val |-> dV_higgs(phi)])

\* The library calls d2V=d2V_higgs.
Call_d2V ==
    \E phi \in PhiGrid : Evaluate("d2V", [phi |-> phi, val |-> d2V_higgs(phi)])

(***************************************************************************)
(* Part 5: the bubble profile.                                             *)
(***************************************************************************)
Part5_Call ==
    /\ pc = "part5"
    /\ findProfile_calls' = findProfile_calls + 1
    /\ pc' = "findProfile"
    /\ UNCHANGED <<lambda_coeff, c3, c2, V_values, plotted, discriminant,
                   phi_min1, phi_min2, phi_min3, V_min1, V_min2, V_min3,
                   phi_stable, phi_metastable, instanton_higgs, cb,
                   profile_higgs, summary, dphi_dr, wall_index, wall_radius>>

\* Strictly increasing radii.
Increasing(R) == \A i \in 1..(Len(R) - 1) : R[i] < R[i + 1]

ProfileValues == {Rat(0, 1), Rat(1, 2), Rat(1, 1)}

\* The profiles the library may return: arrays R and Phi of one length.
Profiles ==
    UNION {
      {[R |-> [i \in 1..n |-> Int2Num(r[i])], Phi |-> f] :
          r \in {q \in [1..n -> 0..MaxProfileLen] : Increasing(q)},
          f \in [1..n -> ProfileValues]} :
      n \in 2..MaxProfileLen}

Part5_Return ==
    /\ pc = "findProfile"
    /\ cb = NoCall
    /\ \E p \in Profiles : profile_higgs' = p
    /\ pc' = "part5_print"
    /\ UNCHANGED <<lambda_coeff, c3, c2, V_values, plotted, discriminant,
                   phi_min1, phi_min2, phi_min3, V_min1, V_min2, V_min3,
                   phi_stable, phi_metastable, instanton_higgs,
                   findProfile_calls, cb, summary, dphi_dr, wall_index,
                   wall_radius>>

\* len(profile_higgs.R), profile_higgs.R[-1], .Phi[0], .Phi[-1]
Part5_Print ==
    /\ pc = "part5_print"
    /\ summary' = [n       |-> Len(profile_higgs.R),
                   Rmax    |-> profile_higgs.R[Len(profile_higgs.R)],
                   Phi0    |-> profile_higgs.Phi[1],
                   PhiEdge |-> profile_higgs.Phi[Len(profile_higgs.Phi)]]
    /\ pc' = "part6"
    /\ UNCHANGED <<lambda_coeff, c3, c2, V_values, plotted, discriminant,
                   phi_min1, phi_min2, phi_min3, V_min1, V_min2, V_min3,
                   phi_stable, phi_metastable, instanton_higgs,
                   findProfile_calls, cb, profile_higgs, dphi_dr, wall_index,
                   wall_radius>>

(***************************************************************************)
(* Part 6: the plot of the profile and the wall location.                  *)
(***************************************************************************)
\* np.gradient(f, x): one-sided differences at the two ends, the second-order
\* difference for uneven spacing inside.
Gradient(f, x) ==
    LET n == Len(f)
        Edge(i, j) == Div(Sub(f[j], f[i]), Sub(x[j], x[i]))
        Inner(i) ==
            LET hs == Sub(x[i], x[i - 1])
                hd == Sub(x[i + 1], x[i])
                a  == Neg(Div(hd, Mul(hs, Add(hd, hs))))
                b  == Div(Sub(hd, hs), Mul(hd, hs))
                c  == Div(hs, Mul(hd, Add(hd, hs)))
            IN  Add(Add(Mul(a, f[i - 1]), Mul(b, f[i])), Mul(c, f[i + 1]))
    IN  [i \in 1..n |-> IF i = 1 THEN Edge(1, 2)
                        ELSE IF i = n THEN Edge(n - 1, n)
                        ELSE Inner(i)]

\* np.abs
AbsNum(x) == IF ~IsNaN(x) /\ Sign(x) < 0 THEN Neg(x) ELSE x

\* np.argmax: the first index (from 0) of a largest element.
ArgMax(v) ==
    (CHOOSE i \in 1..Len(v) :
        /\ \A j \in 1..Len(v) : ~Gt(v[j], v[i])
        /\ \A j \in 1..(i - 1) : Gt(v[i], v[j])) - 1

Part6 ==
    /\ pc = "part6"
    /\ plotted' = Append(plotted, [x |-> profile_higgs.R, y |-> profile_higgs.Phi])
    /\ dphi_dr' = Gradient(profile_higgs.Phi, profile_higgs.R)
    /\ wall_index' = ArgMax([i \in 1..Len(dphi_dr') |-> AbsNum(dphi_dr'[i])])
    /\ wall_radius' = profile_higgs.R[wall_index' + 1]
    /\ pc' = "done"
    /\ UNCHANGED <<lambda_coeff, c3, c2, V_values, discriminant, phi_min1,
                   phi_min2, phi_min3, V_min1, V_min2, V_min3, phi_stable,
                   phi_metastable, instanton_higgs, findProfile_calls, cb,
                   profile_higgs, summary>>

Next ==
    \/ Part1
    \/ Part2
    \/ Part3_CriticalPoints
    \/ Part3_Identify
    \/ Part4_Construct
    \/ Call_V
    \/ Call_dV
    \/ Call_d2V
    \/ Call_Return
    \/ Part4_Return
    \/ Part5_Call
    \/ Part5_Return
    \/ Part5_Print
    \/ Part6

Spec == Init /\ [][Next]_vars

(***************************************************************************)
(* Properties.                                                             *)
(***************************************************************************)
\* The run uses the parameters Solution.py ships with.
ScriptParams ==
    lambda_coeff = ScriptLambda /\ c3 = ScriptC3 /\ c2 = ScriptC2

\* Part 3 has computed the critical points.
Located == pc \notin {"part1", "part2", "part3"}

\* The identification branch of Part 3 has run.
Identified == Located /\ pc # "identify"

\* 4*lambda*phi^2 - 3*c3*phi + 2*c2, the quadratic factor of dV/dphi.
QuadraticFactor(phi) ==
    Add(Sub(Mul(Mul(Int2Num(4), lambda_coeff), Pow(phi, 2)),
            Mul(Mul(Int2Num(3), c3), phi)),
        Mul(Int2Num(2), c2))

\* C1: with the script's parameters, phi_min1 = 0, phi_min2 and phi_min3 are
\* exactly the roots of dV_higgs: dV_higgs vanishes at the three of them and
\* at no other field value it is evaluated at, it factors as
\* phi * (4*lambda*phi^2 - 3*c3*phi + 2*c2), phi_min2 and phi_min3 are the
\* roots of the quadratic factor for the discriminant 9*c3^2 - 32*lambda*c2,
\* their sum is 3*c3/(4*lambda) and their product is 2*c2/(4*lambda).
C1_CriticalPointsAreRoots ==
    (ScriptParams /\ Located) =>
        /\ phi_min1 = Zero
        /\ discriminant = Rat(6225, 10000)
        /\ phi_min2 # phi_min3
        /\ \A r \in {phi_min1, phi_min2, phi_min3} : dV_higgs(r) = Zero
        /\ \A r \in {phi_min2, phi_min3} : QuadraticFactor(r) = Zero
        /\ Add(phi_min2, phi_min3) =
              Div(Mul(Int2Num(3), c3), Mul(Int2Num(4), lambda_coeff))
        /\ Mul(phi_min2, phi_min3) =
              Div(Mul(Int2Num(2), c2), Mul(Int2Num(4), lambda_coeff))
        /\ cb.f = "dV" =>
              /\ cb.val = Mul(cb.phi, QuadraticFactor(cb.phi))
              /\ cb.val = Zero => cb.phi \in {phi_min1, phi_min2, phi_min3}

\* The library evaluates dV_higgs at its rational root while the script runs
\* with its own parameters.
C1_Witness ==
    /\ ScriptParams
    /\ pc = "findProfile"
    /\ cb.f = "dV"
    /\ cb.val = Zero
    /\ phi_min3 = [a |-> 27, b |-> 1, k |-> 249, d |-> 40]

Near(x, y) ==
    /\ Gt(Add(y, Rat(1, 10)), x)
    /\ Gt(x, Sub(y, Rat(1, 10)))

\* C3: with the script's parameters the identification yields
\* phi_metastable = 0.0 = phi_min1 and phi_stable = phi_min3, the larger
\* quadratic root, within a tenth of 1.0; phi_min2 is assigned to neither,
\* and the object is constructed with phi_absMin = phi_stable and
\* phi_metaMin = phi_metastable.
C3_Identification ==
    (ScriptParams /\ Identified) =>
        /\ phi_metastable = Zero
        /\ phi_metastable = phi_min1
        /\ phi_stable = phi_min3
        /\ Gt(phi_min3, phi_min2)
        /\ Near(phi_stable, Int2Num(1))
        /\ phi_min2 \notin {phi_stable, phi_metastable}
        /\ instanton_higgs.made =>
              /\ instanton_higgs.phi_absMin = phi_stable
              /\ instanton_higgs.phi_metaMin = phi_metastable
              /\ instanton_higgs.phi_absMin = phi_min3
              /\ instanton_higgs.phi_metaMin = Zero

\* The object has been constructed in a run with the script's parameters.
C3_Witness ==
    /\ ScriptParams
    /\ instanton_higgs.made
    /\ pc = "part5"

\* Part 5 or Part 6 has read profile_higgs.R or profile_higgs.Phi.
ProfileRead ==
    \/ summary # NoSummary
    \/ dphi_dr # <<>>
    \/ wall_index # -1
    \/ wall_radius # None
    \/ Len(plotted) > 1

\* C4: the steps run in the order define the potential, locate the critical
\* points, construct the object, call findProfile, plot: findProfile is
\* called at most once, only on an object constructed from the two minima
\* already identified, exactly once by the time the profile is there, and
\* the profile is read only after findProfile has returned it.
C4_StepOrder ==
    /\ findProfile_calls <= 1
    /\ Located => IsSet(lambda_coeff) /\ IsSet(c3) /\ IsSet(c2)
    /\ IsSet(phi_stable) \/ IsSet(phi_metastable) =>
          Located /\ IsSet(phi_min1) /\ IsSet(V_min1) /\ IsSet(V_min3)
    /\ instanton_higgs.made => Identified /\ IsSet(phi_stable) /\ IsSet(phi_metastable)
    /\ findProfile_calls = 1 =>
          /\ instanton_higgs.made
          /\ instanton_higgs.phi_absMin = phi_stable
          /\ instanton_higgs.phi_metaMin = phi_metastable
    /\ profile_higgs # NoProfile => findProfile_calls = 1 /\ pc # "findProfile"
    /\ ProfileRead => profile_higgs # NoProfile
    /\ pc \in {"part5_print", "part6", "done"} => findProfile_calls = 1
    /\ pc = "done" =>
          /\ Len(plotted) = 2
          /\ plotted[2] = [x |-> profile_higgs.R, y |-> profile_higgs.Phi]

\* The script has run to its end and located the wall on the profile.
C4_Witness ==
    /\ pc = "done"
    /\ findProfile_calls = 1
    /\ wall_index >= 0
    /\ wall_radius = profile_higgs.R[wall_index + 1]

\* 12 * h * f'(x) by the five-point difference, exact for a polynomial f of
\* degree at most 4: f(x-2h) - 8*f(x-h) + 8*f(x+h) - f(x+2h).
FivePointV(x, h) ==
    LET h2 == Mul(Int2Num(2), h)
    IN  Add(Sub(V_higgs(Sub(x, h2)), V_higgs(Add(x, h2))),
            Mul(Int2Num(8), Sub(V_higgs(Add(x, h)), V_higgs(Sub(x, h)))))

FivePointdV(x, h) ==
    LET h2 == Mul(Int2Num(2), h)
    IN  Add(Sub(dV_higgs(Sub(x, h2)), dV_higgs(Add(x, h2))),
            Mul(Int2Num(8), Sub(dV_higgs(Add(x, h)), dV_higgs(Sub(x, h)))))

Steps == {Rat(1, 10), Rat(1, 2)}

\* C5: whatever the parameters and the field value the library asks for,
\* the value dV_higgs returns is the derivative of V_higgs there and the
\* value d2V_higgs returns is the derivative of dV_higgs there (V_higgs is a
\* quartic, so its derivative is the five-point difference quotient).
C5_DerivativesConsistent ==
    /\ cb.f = "dV" =>
          \A h \in Steps :
             Mul(Mul(Int2Num(12), h), cb.val) = FivePointV(cb.phi, h)
    /\ cb.f = "d2V" =>
          \A h \in Steps :
             Mul(Mul(Int2Num(12), h), cb.val) = FivePointdV(cb.phi, h)

\* The library gets a nonzero slope at a nonzero field value.
C5_Witness ==
    /\ cb.f = "dV"
    /\ cb.phi = Rat(1, 2)
    /\ cb.val # Zero
    /\ ScriptParams

\* C6: with the script's parameters 0 = phi_min1 < phi_min2 < phi_min3,
\* d2V_higgs is positive at phi_min1 and phi_min3 and negative at phi_min2,
\* and V_higgs(phi_min2) exceeds V_higgs(phi_min1) and V_higgs(phi_min3).
C6_DoubleWell ==
    (ScriptParams /\ Located) =>
        /\ phi_min1 = Zero
        /\ Gt(phi_min2, phi_min1)
        /\ Gt(phi_min3, phi_min2)
        /\ Gt(d2V_higgs(phi_min1), Zero)
        /\ Gt(d2V_higgs(phi_min3), Zero)
        /\ Gt(Zero, d2V_higgs(phi_min2))
        /\ Gt(V_min2, V_min1)
        /\ Gt(V_min2, V_min3)
        /\ V_min2 = V_higgs(phi_min2)
        /\ V_min1 = V_higgs(phi_min1)
        /\ V_min3 = V_higgs(phi_min3)

\* The critical points of the script's potential have just been computed.
C6_Witness ==
    /\ ScriptParams
    /\ pc = "identify"
    /\ V_min1 = Zero
    /\ ~IsNaN(V_min2)

====
